---------------------------- MODULE Spec2Model ----------------------------
(***************************************************************************)
(* A model of the deep-research agent: the three-stage research pipeline   *)
(* (deep_research_agent.py, DeepResearchAgent.research), the researcher's  *)
(* tools and the web extractor they call (web_to_text.py).                 *)
(*                                                                         *)
(* Text is a sequence of tokens.  A literal piece of an f-string is one    *)
(* token; text that comes from outside (a question, a model's answer, an   *)
(* exception's message) is a sequence of one-letter tokens.                *)
(***************************************************************************)
EXTENDS Integers, Sequences, FiniteSets, TLC

(***************************************************************************)
(* Bounds of the model.                                                    *)
(***************************************************************************)
\* the most items one Runner.run result holds (new_items)
MaxItems == 1

\* how many of the latest poll and sleep events of a deep_research call are kept
MaxEvents == 4

\* the most entries a search answer or a site map holds
MaxResults == 2

(***************************************************************************)
(* Helpers on text.                                                        *)
(***************************************************************************)
\* t occurs in s as a contiguous piece
Contains(s, t) ==
    \E i \in 0..(Len(s) - Len(t)) : SubSeq(s, i + 1, i + Len(t)) = t

\* all sequences over S of length at most n
SeqsUpTo(S, n) == UNION {[1..k -> S] : k \in 0..n}

(***************************************************************************)
(* The research pipeline: DeepResearchAgent.research.                      *)
(***************************************************************************)
\* the concurrent callers of research() on one agent
Calls == {"c1", "c2"}

\* the questions asked
Questions == {<<"q">>, <<"q", "r">>}

\* the texts a delegate's message item can hold
Texts == {<<"a">>, <<"b">>}

\* the messages an exception raised by a stage can carry (str(e))
Messages == {<<"m">>, <<"n">>}

\* the items of a Runner.run result: message outputs, and items that are not
Items == {[type |-> "message_output_item", text |-> t] : t \in Texts}
            \cup {[type |-> "tool_call_item", text |-> <<>>]}

NewItems == SeqsUpTo(Items, MaxItems)

\* absent value of a local variable that is not yet bound
None == <<"None">>

Stages == <<"planner", "researcher", "synthesis">>

\* ItemHelpers.text_message_outputs: the texts of the message items, concatenated
RECURSIVE text_message_outputs(_)
text_message_outputs(items) ==
    IF items = <<>> THEN <<>>
    ELSE (IF Head(items).type = "message_output_item" THEN Head(items).text ELSE <<>>)
             \o text_message_outputs(Tail(items))

\* the input of the planner: line 425
PlannerInput(q) ==
    <<"I need to research this topic thoroughly: ">> \o q
        \o <<"\n\nPlease analyze this question and create a research plan with specific search queries to investigate.">>

\* a researcher input that leaves the plan out
ResearcherInputNoPlan(q, plan) ==
    <<"I need to research this topic: ">> \o q
        \o <<"\n\nHere's the research plan and queries from our planning phase:\n\n">>
        \o <<"\n\nPlease conduct thorough research using these queries and gather comprehensive information.">>

\* the input of the researcher: line 436
ResearcherInput(q, plan) ==
    <<"I need to research this topic: ">> \o q
        \o <<"\n\nHere's the research plan and queries from our planning phase:\n\n">>
        \o plan
        \o <<"\n\nPlease conduct thorough research using these queries and gather comprehensive information.">>

\* the input of the synthesis agent: line 446
SynthesisInput(q, findings) ==
    <<"Original question: ">> \o q
        \o <<"\n\nResearch findings:\n\n">>
        \o findings
        \o <<"\n\nPlease synthesize this information into a comprehensive, well-structured answer to the original question.">>

\* the string research() returns when a stage raised: line 456
ResearchError(msg) == <<"Error performing research: ">> \o msg

VARIABLES
    run,       \* per call of research(): its position and its local variables
    dr,        \* the call of WebToTextExtractor.deep_research: position and locals
    sx,        \* the call of extract_from_url, search_and_extract or
               \* map_website_and_extract: position and locals
    tl,        \* the call of a researcher tool: position, name and result
    ag,        \* the DeepResearchAgent: its construction and its fields
    fs         \* the clock and the files save_research_results has written

vars == <<run, dr, sx, tl, ag, fs>>

\* a call that has not been made yet
NotStarted ==
    [pc |-> "idle", question |-> None, planning_output |-> None,
     research_output |-> None, final_output |-> None,
     input |-> [s \in {"planner", "researcher", "synthesis"} |-> None],
     raised |-> "none", exc |-> None, outcome |-> "none", ret |-> None,
     log |-> <<>>, called |-> <<>>]

Call(stage)   == [ev |-> "call", stage |-> stage]
Return(stage) == [ev |-> "return", stage |-> stage]
Raise(stage)  == [ev |-> "raise", stage |-> stage]

\* research(question) is called and runs to its first await: Runner.run(planner)
Research(c, q) ==
    /\ UNCHANGED <<ag, fs, dr, sx, tl>>
    /\ run[c].pc = "idle"
    /\ run' = [run EXCEPT ![c].pc = "planner",
                          ![c].question = q,
                          ![c].input["planner"] = PlannerInput(q),
                          ![c].log = <<Call("planner")>>]

\* a pipeline that goes from the plan straight to the synthesis
PlannerReturnsSkipsResearch(c, items) ==
    /\ UNCHANGED <<ag, fs, dr, sx, tl>>
    /\ run[c].pc = "planner"
    /\ LET planning_output == text_message_outputs(items)
       IN  run' = [run EXCEPT ![c].pc = "synthesis",
                              ![c].planning_output = planning_output,
                              ![c].input["synthesis"] =
                                  SynthesisInput(run[c].question, planning_output),
                              ![c].log = @ \o <<Return("planner"), Call("synthesis")>>]

\* the planner's run returns; the researcher's run is started
PlannerReturns(c, items) ==
    /\ UNCHANGED <<ag, fs, dr, sx, tl>>
    /\ run[c].pc = "planner"
    /\ LET planning_output == text_message_outputs(items)
       IN  run' = [run EXCEPT ![c].pc = "researcher",
                              ![c].planning_output = planning_output,
                              ![c].input["researcher"] =
                                  ResearcherInput(run[c].question, planning_output),
                              ![c].log = @ \o <<Return("planner"), Call("researcher")>>]

\* a pipeline that keeps the question in a field shared by the calls: the
\* synthesis input is built from the question of whichever call wrote it
ResearcherReturnsSharedQuestion(c, items) ==
    /\ UNCHANGED <<ag, fs, dr, sx, tl>>
    /\ run[c].pc = "researcher"
    /\ \E d \in Calls :
           /\ run[d].question # None
           /\ LET research_output == text_message_outputs(items)
              IN  run' = [run EXCEPT ![c].pc = "synthesis",
                                     ![c].research_output = research_output,
                                     ![c].input["synthesis"] =
                                         SynthesisInput(run[d].question, research_output),
                                     ![c].log = @ \o <<Return("researcher"), Call("synthesis")>>]

\* the researcher's run returns; the synthesis agent's run is started
ResearcherReturns(c, items) ==
    /\ UNCHANGED <<ag, fs, dr, sx, tl>>
    /\ run[c].pc = "researcher"
    /\ LET research_output == text_message_outputs(items)
       IN  run' = [run EXCEPT ![c].pc = "synthesis",
                              ![c].research_output = research_output,
                              ![c].input["synthesis"] =
                                  SynthesisInput(run[c].question, research_output),
                              ![c].log = @ \o <<Return("researcher"), Call("synthesis")>>]

\* the synthesis agent's run returns; research() returns its text
SynthesisReturns(c, items) ==
    /\ UNCHANGED <<ag, fs, dr, sx, tl>>
    /\ run[c].pc = "synthesis"
    /\ LET final_output == text_message_outputs(items)
       IN  run' = [run EXCEPT ![c].pc = "done",
                              ![c].final_output = final_output,
                              ![c].outcome = "returned",
                              ![c].ret = final_output,
                              ![c].log = @ \o <<Return("synthesis")>>]

\* a research() with no except clause: the exception reaches the caller
StageRaisesUncaught(c, msg) ==
    /\ UNCHANGED <<ag, fs, dr, sx, tl>>
    /\ run[c].pc \in {"planner", "researcher", "synthesis"}
    /\ run' = [run EXCEPT ![c].pc = "done",
                          ![c].raised = run[c].pc,
                          ![c].exc = msg,
                          ![c].outcome = "raised",
                          ![c].log = @ \o <<Raise(run[c].pc)>>]

\* the stage in flight raises an Exception with message msg: the except clause
\* of lines 454-456 turns it into the returned string
StageRaises(c, msg) ==
    /\ UNCHANGED <<ag, fs, dr, sx, tl>>
    /\ run[c].pc \in {"planner", "researcher", "synthesis"}
    /\ run' = [run EXCEPT ![c].pc = "done",
                          ![c].raised = run[c].pc,
                          ![c].exc = msg,
                          ![c].outcome = "returned",
                          ![c].ret = ResearchError(msg),
                          ![c].log = @ \o <<Raise(run[c].pc)>>]

Next ==
    \E c \in Calls :
        \/ \E q \in Questions : Research(c, q)
        \/ \E items \in NewItems : PlannerReturns(c, items)
        \/ \E items \in NewItems : ResearcherReturns(c, items)
        \/ \E items \in NewItems : SynthesisReturns(c, items)
        \/ \E msg \in Messages : StageRaises(c, msg)

(***************************************************************************)
(* The extractor: WebToTextExtractor.deep_research.                        *)
(*                                                                         *)
(* A dict is a function from its keys; Python's None is Null where a       *)
(* string or a dict field is expected.                                     *)
(***************************************************************************)
Null == "None"

\* the queries given to the extractor
Queries == {"query1", "query2"}

\* the messages of the exceptions the remote calls raise, and the errors the
\* remote reports
Errors == {"e1", "e2"}

\* the statuses a status poll can report; "other" is any value the code does
\* not name
Statuses == {"processing", "scraping", "done", "error", "other"}

\* a loop that goes on only while the job is 'processing'
PendingProcessingOnly == {"processing"}

\* the statuses on which the loop of line 346 goes on
Pending == {"processing", "scraping"}

\* what app.deep_research answers: success and id, or failure and error
SubmitResponses ==
    {[success |-> TRUE, id |-> i, error |-> Null] : i \in {"id1", "id2"}}
        \cup {[success |-> FALSE, id |-> Null, error |-> e] : e \in Errors \cup {Null}}

\* what app.deep_research_status answers
StatusResponses ==
    [status : Statuses,
     sources : {<<>>, <<[url |-> "u1", title |-> "t1"]>>},
     activities : {<<>>},
     summaries : {<<>>, <<"summary1">>},
     error : {Null, "e1"}]

\* the outcome of a call: nothing yet, a returned value, a raised exception
NoOutcome      == [kind |-> "none"]
Returned(v)    == [kind |-> "return", value |-> v]
Raised(msg)    == [kind |-> "raise", value |-> msg]

\* None where a dict or a response object is expected: result = None (line 344)
NoResult == [none |-> TRUE]
IsNone(d) == "none" \in DOMAIN d

\* the snapshot of lines 356-362
SuccessSnapshot(status_response, research_id) ==
    [success |-> TRUE,
     sources |-> status_response.sources,
     activities |-> status_response.activities,
     summaries |-> status_response.summaries,
     research_id |-> research_id]

\* the snapshot of lines 337 and 367
ErrorSnapshot(error) == [success |-> FALSE, error |-> error]

\* the fallback of line 373
TimedOut == [success |-> FALSE, error |-> "Research timed out"]

\* a return of result with no fallback
ResultOrNothing(result) == result

\* result or {...}: line 373
ResultOr(result) == IF IsNone(result) THEN TimedOut ELSE result

\* a submission whose failure is not looked at
SubmitNeverFailed(research_response) == FALSE

\* not research_response.success: line 335
SubmitFailed(research_response) == ~research_response.success

\* time.sleep(2): line 371
SleepSeconds == 2

\* the events of a call, the latest MaxEvents of them
Polled(status_response) == [ev |-> "poll", resp |-> status_response]
Slept == [ev |-> "sleep", seconds |-> SleepSeconds]
Push(events, e) ==
    IF Len(events) < MaxEvents THEN Append(events, e) ELSE Append(Tail(events), e)

DrIdle ==
    [pc |-> "idle", query |-> Null, research_response |-> NoResult,
     research_id |-> Null, status |-> Null, result |-> NoResult,
     events |-> <<>>, dropped |-> FALSE, ret |-> NoOutcome]

\* the locals of a call of deep_research
StartDeepResearch(query) == [DrIdle EXCEPT !.pc = "submit", !.query = query]

\* deep_research(query) is called: lines 323-331
DeepResearch(query) ==
    /\ dr.pc = "idle" /\ sx.pc = "idle" /\ tl.pc = "idle"
    /\ dr' = StartDeepResearch(query)
    /\ UNCHANGED <<ag, fs, run, sx, tl>>

\* app.deep_research answers: lines 333-344
Submit(research_response) ==
    /\ dr.pc = "submit"
    /\ IF SubmitFailed(research_response)
       THEN dr' = [dr EXCEPT !.pc = "done",
                             !.research_response = research_response,
                             !.ret = Returned(ErrorSnapshot(research_response.error))]
       ELSE dr' = [dr EXCEPT !.pc = "poll",
                             !.research_response = research_response,
                             !.research_id = research_response.id,
                             !.status = "processing",
                             !.result = NoResult]
    /\ UNCHANGED <<ag, fs, run, sx, tl>>

\* a loop that polls again at once while the research is pending
PollWithoutSleep(status_response) ==
    /\ dr.pc = "poll"
    /\ LET status == status_response.status
           polled == [dr EXCEPT !.status = status,
                                !.events = Push(dr.events, Polled(status_response)),
                                !.dropped = dr.dropped \/ Len(dr.events) = MaxEvents]
       IN  IF status = "done"
           THEN LET result == SuccessSnapshot(status_response, dr.research_id)
                IN  dr' = [polled EXCEPT !.pc = "done",
                                         !.result = result,
                                         !.ret = Returned(ResultOr(result))]
           ELSE IF status = "error"
           THEN dr' = [polled EXCEPT !.pc = "done",
                                     !.ret = Returned(ErrorSnapshot(status_response.error))]
           ELSE IF status \in Pending
           THEN dr' = polled
           ELSE dr' = [polled EXCEPT !.pc = "sleep"]
    /\ UNCHANGED <<ag, fs, run, sx, tl>>

\* app.deep_research_status answers: lines 346-367, one pass of the loop up to
\* its return or its sleep
Poll(status_response) ==
    /\ dr.pc = "poll"
    /\ LET status == status_response.status
           polled == [dr EXCEPT !.status = status,
                                !.events = Push(dr.events, Polled(status_response)),
                                !.dropped = dr.dropped \/ Len(dr.events) = MaxEvents]
       IN  IF status = "done"
           THEN LET result == SuccessSnapshot(status_response, dr.research_id)
                IN  dr' = [polled EXCEPT !.pc = "done",
                                         !.result = result,
                                         !.ret = Returned(ResultOr(result))]
           ELSE IF status = "error"
           THEN dr' = [polled EXCEPT !.pc = "done",
                                     !.ret = Returned(ErrorSnapshot(status_response.error))]
           ELSE dr' = [polled EXCEPT !.pc = "sleep"]
    /\ UNCHANGED <<ag, fs, run, sx, tl>>

\* a loop that gives up once MaxEvents events have passed
SleepWithCutoff ==
    /\ dr.pc = "sleep"
    /\ LET slept == [dr EXCEPT !.events = Push(dr.events, Slept),
                               !.dropped = dr.dropped \/ Len(dr.events) = MaxEvents]
       IN  IF dr.status \in Pending /\ Len(dr.events) < MaxEvents
           THEN dr' = [slept EXCEPT !.pc = "poll"]
           ELSE dr' = [slept EXCEPT !.pc = "done",
                                    !.ret = Returned(ResultOr(dr.result))]
    /\ UNCHANGED <<ag, fs, run, sx, tl>>

\* time.sleep(2) ends and the loop condition is read: lines 369-373 and 346
Sleep ==
    /\ dr.pc = "sleep"
    /\ LET slept == [dr EXCEPT !.events = Push(dr.events, Slept),
                               !.dropped = dr.dropped \/ Len(dr.events) = MaxEvents]
       IN  IF dr.status \in Pending
           THEN dr' = [slept EXCEPT !.pc = "poll"]
           ELSE dr' = [slept EXCEPT !.pc = "done",
                                    !.ret = Returned(ResultOr(dr.result))]
    /\ UNCHANGED <<ag, fs, run, sx, tl>>

\* a remote call of deep_research raises: logged and raised again, lines 375-377
RemoteRaises(msg) ==
    /\ dr.pc \in {"submit", "poll"}
    /\ dr' = [dr EXCEPT !.pc = "done", !.ret = Raised(msg)]
    /\ UNCHANGED <<ag, fs, run, sx, tl>>

(***************************************************************************)
(* Text of the extractor and of the tools: a sequence of runs, the run     *)
(* [s, n] being the first n characters of s repeated without end.  A       *)
(* literal is one run of its own length; a page of thousands of            *)
(* characters is one long run.                                             *)
(***************************************************************************)
\* the text of the string s
T(s) == IF s = "" THEN <<>> ELSE <<[s |-> s, n |-> Len(s)]>>

\* s * n for a one-character s; more generally the first n characters of s s s ...
Rep(s, n) == IF n = 0 THEN <<>> ELSE <<[s |-> s, n |-> n]>>

\* len(text)
RECURSIVE TextLen(_)
TextLen(text) == IF text = <<>> THEN 0 ELSE Head(text).n + TextLen(Tail(text))

\* text[:k]
RECURSIVE Take(_, _)
Take(text, k) ==
    IF k <= 0 \/ text = <<>> THEN <<>>
    ELSE IF Head(text).n <= k
         THEN <<Head(text)>> \o Take(Tail(text), k - Head(text).n)
         ELSE <<[s |-> Head(text).s, n |-> k]>>

\* sep.join(parts)
RECURSIVE Join(_, _)
Join(sep, parts) ==
    IF parts = <<>> THEN <<>>
    ELSE IF Len(parts) = 1 THEN parts[1]
    ELSE parts[1] \o sep \o Join(sep, Tail(parts))

\* the caps of lines 266, 360 and 399
SearchWebCap == 2000
ExtractCap == 3000
CombinedCap == 4000

\* content[:cap] + "...[content truncated]" when len(content) > cap
Truncate(content, cap) ==
    IF TextLen(content) > cap
    THEN Take(content, cap) \o T("...[content truncated]")
    ELSE content

(***************************************************************************)
(* The extractor: extract_from_url, search_and_extract and                 *)
(* map_website_and_extract.                                                *)
(***************************************************************************)
\* d.get(k, default)
Get(d, k, default) == IF k \in DOMAIN d THEN d[k] ELSE default

\* d with d[k] = v
Put(d, k, v) == [x \in DOMAIN d \cup {k} |-> IF x = k THEN v ELSE d[x]]

\* [x for x in l if x in S]
RECURSIVE Filter(_, _)
Filter(l, S) ==
    IF l = <<>> THEN <<>>
    ELSE (IF Head(l) \in S THEN <<Head(l)>> ELSE <<>>) \o Filter(Tail(l), S)

\* l[:n] for n >= 0
Slice(l, n) == SubSeq(l, 1, IF n < Len(l) THEN n ELSE Len(l))

Urls == {"u1", "u2"}

\* the format lists a caller asks for
FormatLists == {<<"markdown">>, <<"pdf", "html">>}

\* valid_formats: lines 73, 194 and 260
valid_formats ==
    {"markdown", "html", "rawHtml", "links", "json", "screenshot",
     "screenshot@fullPage", "extract"}

\* validated_formats of extract_from_url: lines 74-78
ValidatedFormats(formats) ==
    IF Filter(formats, valid_formats) = <<>> THEN <<"markdown">>
    ELSE Filter(formats, valid_formats)

\* validated_formats of the two batch operations: lines 193-199 and 259-265
BatchFormats(use_local_docker, formats) ==
    IF use_local_docker THEN ValidatedFormats(formats) ELSE formats

\* the default timeout of extract_from_url, line 60
DefaultTimeout == 60000

\* params of extract_from_url: lines 81-96
ScrapeParams(use_local_docker, formats, timeout) ==
    IF use_local_docker
    THEN [formats |-> ValidatedFormats(formats), timeout |-> timeout,
          onlyMainContent |-> TRUE]
    ELSE [formats |-> formats, timeout |-> timeout]

\* what app.scrape_url answers
RawResults ==
    {[markdown |-> T("md1"), success |-> TRUE,
      metadata |-> [title |-> "T1", description |-> "D1"]],
     [markdown |-> Rep("x", SearchWebCap + 1), metadata |-> [author |-> "A2"]],
     [html |-> "h3", success |-> TRUE]}

\* an exception of a class of its own: its class name and its message
RaisedAs(type, msg) == [kind |-> "raise", value |-> msg, type |-> type]

\* the exceptions app.scrape_url raises: an HTTP error of the remote, a timeout
ScrapeErrors == {RaisedAs("HTTPError", "e1"), RaisedAs("Timeout", "e2")}

\* the outcomes of app.scrape_url: an answer or an exception
ScrapeOutcomes == {Returned(r) : r \in RawResults} \cup ScrapeErrors

\* _process_scrape_result: lines 146-172
process_scrape_result(result) ==
    [key \in DOMAIN result \ {"success", "error"} |->
        IF key = "metadata"
        THEN [title |-> Get(result.metadata, "title", ""),
              description |-> Get(result.metadata, "description", ""),
              author |-> Get(result.metadata, "author", ""),
              date |-> Get(result.metadata, "date", "")]
        ELSE result[key]]

\* an extract_from_url that wraps the failure in an error class of its own
ExtractOutcomeWrapped(outcome) ==
    IF outcome.kind = "raise" THEN RaisedAs("ExtractionError", outcome.value)
    ELSE Returned(process_scrape_result(outcome.value))

\* extract_from_url once app.scrape_url has answered or raised: lines 98-109;
\* the bare raise of line 109 raises the exception it caught
ExtractOutcome(outcome) ==
    IF outcome.kind = "raise" THEN outcome
    ELSE Returned(process_scrape_result(outcome.value))

\* the entries of a search answer's data: with a url or without
SearchEntries ==
    {[url |-> "u1", title |-> "t1", snippet |-> "s1"],
     [url |-> "u2"],
     [title |-> "t3"]}

\* what app.search answers
SearchResponses ==
    {[success |-> TRUE, data |-> d] : d \in SeqsUpTo(SearchEntries, MaxResults)}
        \cup {[success |-> FALSE, error |-> "e1"],
              [success |-> TRUE],
              [data |-> <<[url |-> "u1"]>>]}

\* what app.map_url answers: a dict with urls, a list, or something else
MapResponses ==
    {[type |-> "dict", value |-> [urls |-> l]] : l \in SeqsUpTo(Urls, MaxResults)}
        \cup {[type |-> "list", list |-> l] : l \in SeqsUpTo(Urls, MaxResults)}
        \cup {[type |-> "dict", value |-> [success |-> FALSE]]}

\* the values of max_pages a caller gives (5 is the default of line 244)
MaxPagesChoices == {1, 5}

\* the urls of a map answer: lines 278-282
MapUrls(map_result) ==
    IF map_result.type = "dict" /\ "urls" \in DOMAIN map_result.value
    THEN map_result.value.urls
    ELSE IF map_result.type = "list" THEN map_result.list
    ELSE <<>>

\* if not url (line 219): the entry has no url, or an empty one
NoUrl(result) == Get(result, "url", Null) \in {Null, ""}

\* search_metadata of lines 227-231
SearchMetadata(result, url) ==
    [title |-> Get(result, "title", ""), snippet |-> Get(result, "snippet", ""),
     url |-> url]

SxIdle ==
    [pc |-> "idle", op |-> Null, use_local_docker |-> FALSE, formats |-> <<>>,
     validated_formats |-> <<>>, max_pages |-> 0, items |-> <<>>, i |-> 1,
     extracted_results |-> <<>>, scraped |-> <<>>, raised_at |-> "none",
     include_metadata |-> FALSE, search_results |-> NoResult, ret |-> NoOutcome]

\* no operation of the extractor is running
ExtractorIdle == dr.pc = "idle" /\ sx.pc = "idle" /\ tl.pc = "idle"

\* the locals of a call of extract_from_url
StartExtract(url, formats, use_local_docker) ==
    [SxIdle EXCEPT !.pc = "scrape", !.op = "extract_from_url",
                   !.use_local_docker = use_local_docker,
                   !.formats = formats, !.items = <<url>>]

\* the locals of a call of search_and_extract: lines 192-206
StartSearch(formats, use_local_docker) ==
    [SxIdle EXCEPT !.pc = "search", !.op = "search_and_extract",
                   !.use_local_docker = use_local_docker,
                   !.formats = formats,
                   !.validated_formats = BatchFormats(use_local_docker, formats)]

\* the locals of a call of map_website_and_extract: lines 258-273
StartMap(formats, max_pages, use_local_docker) ==
    [SxIdle EXCEPT !.pc = "map", !.op = "map_website_and_extract",
                   !.use_local_docker = use_local_docker,
                   !.formats = formats,
                   !.validated_formats = BatchFormats(use_local_docker, formats),
                   !.max_pages = max_pages]

\* the record of one call of app.scrape_url: for which entry, of which url,
\* with which params, whether it answered (ok) or raised, and what it raised
Scrape(i, url, formats, outcome) ==
    [i |-> i, url |-> url,
     params |-> ScrapeParams(sx.use_local_docker, formats, DefaultTimeout),
     ok |-> outcome.kind = "return",
     exc |-> IF outcome.kind = "raise" THEN outcome ELSE NoOutcome]

\* extract_from_url(url, formats) is called on the extractor
ExtractFromUrl(url, formats, use_local_docker) ==
    /\ ExtractorIdle
    /\ sx' = StartExtract(url, formats, use_local_docker)
    /\ UNCHANGED <<ag, fs, run, dr, tl>>

\* app.scrape_url answers or raises and extract_from_url ends: lines 98-109
ScrapeEnds(outcome) ==
    /\ sx.pc = "scrape"
    /\ sx' = [sx EXCEPT !.pc = "done",
                        !.scraped = <<Scrape(1, sx.items[1], sx.formats, outcome)>>,
                        !.ret = ExtractOutcome(outcome)]
    /\ UNCHANGED <<ag, fs, run, dr, tl>>

\* search_and_extract(query, formats=formats) is called on the extractor
SearchAndExtract(formats, use_local_docker) ==
    /\ ExtractorIdle
    /\ sx' = StartSearch(formats, use_local_docker)
    /\ UNCHANGED <<ag, fs, run, dr, tl>>

\* app.search answers: lines 210-216
SearchAnswers(search_results) ==
    /\ sx.pc = "search"
    /\ IF ~Get(search_results, "success", FALSE) \/ "data" \notin DOMAIN search_results
       THEN sx' = [sx EXCEPT !.pc = "done", !.search_results = search_results,
                             !.ret = Returned(<<>>)]
       ELSE sx' = [sx EXCEPT !.pc = "loop", !.search_results = search_results,
                             !.items = search_results.data,
                             !.i = 1, !.extracted_results = <<>>]
    /\ UNCHANGED <<ag, fs, run, dr, tl>>

\* map_website_and_extract(url, max_pages=max_pages, formats=formats) is called
MapWebsiteAndExtract(formats, max_pages, use_local_docker) ==
    /\ ExtractorIdle
    /\ sx' = StartMap(formats, max_pages, use_local_docker)
    /\ UNCHANGED <<ag, fs, run, dr, tl>>

\* app.map_url answers: lines 275-288
MapAnswers(map_result) ==
    /\ sx.pc = "map"
    /\ sx' = [sx EXCEPT !.pc = "loop",
                        !.items = Slice(MapUrls(map_result), sx.max_pages),
                        !.i = 1, !.extracted_results = <<>>]
    /\ UNCHANGED <<ag, fs, run, dr, tl>>

\* app.search or app.map_url raises: logged and raised again, lines 238-240
\* and 301-303
BatchRaises(msg) ==
    /\ sx.pc \in {"search", "map"}
    /\ sx' = [sx EXCEPT !.pc = "done", !.raised_at = sx.pc, !.ret = Raised(msg)]
    /\ UNCHANGED <<ag, fs, run, dr, tl>>

\* a search entry with no url is passed over: lines 218-220
LoopSkip ==
    /\ sx.pc = "loop" /\ sx.i <= Len(sx.items)
    /\ sx.op = "search_and_extract"
    /\ NoUrl(sx.items[sx.i])
    /\ sx' = [sx EXCEPT !.i = sx.i + 1]
    /\ UNCHANGED <<ag, fs, run, dr, tl>>

\* one url of the loop: its extraction where extract_from_url returned
\* (lines 225-232 and 293-295)
Extracted(op, item, url, value) ==
    IF op = "search_and_extract"
    THEN Put(value, "search_metadata", SearchMetadata(item, url))
    ELSE Put(value, "url", url)

\* a loop that ends the whole call when one url fails
LoopScrapeFailsAll(outcome) ==
    /\ sx.pc = "loop" /\ sx.i <= Len(sx.items)
    /\ sx.op = "search_and_extract" => ~NoUrl(sx.items[sx.i])
    /\ LET item == sx.items[sx.i]
           url == IF sx.op = "search_and_extract" THEN item.url ELSE item
           extracted == ExtractOutcome(outcome)
           called == [sx EXCEPT !.scraped =
                          Append(sx.scraped,
                                 Scrape(sx.i, url, sx.validated_formats, outcome))]
       IN  IF extracted.kind = "raise"
           THEN sx' = [called EXCEPT !.pc = "done", !.ret = Raised(extracted.value)]
           ELSE sx' = [called EXCEPT !.i = sx.i + 1,
                                     !.extracted_results =
                                         Append(sx.extracted_results,
                                                Extracted(sx.op, item, url, extracted.value))]
    /\ UNCHANGED <<ag, fs, run, dr, tl>>

\* a loop that puts a placeholder in the results for a url that failed
LoopScrapePlaceholder(outcome) ==
    /\ sx.pc = "loop" /\ sx.i <= Len(sx.items)
    /\ sx.op = "search_and_extract" => ~NoUrl(sx.items[sx.i])
    /\ LET item == sx.items[sx.i]
           url == IF sx.op = "search_and_extract" THEN item.url ELSE item
           extracted == ExtractOutcome(outcome)
           called == [sx EXCEPT !.scraped =
                          Append(sx.scraped,
                                 Scrape(sx.i, url, sx.validated_formats, outcome))]
       IN  IF extracted.kind = "raise"
           THEN sx' = [called EXCEPT !.i = sx.i + 1,
                                     !.extracted_results =
                                         Append(sx.extracted_results,
                                                Extracted(sx.op, item, url,
                                                          [error |-> extracted.value]))]
           ELSE sx' = [called EXCEPT !.i = sx.i + 1,
                                     !.extracted_results =
                                         Append(sx.extracted_results,
                                                Extracted(sx.op, item, url, extracted.value))]
    /\ UNCHANGED <<ag, fs, run, dr, tl>>

\* one url of the loop is scraped: lines 217-234 and 289-297; a failure is
\* logged and the url passed over
LoopScrape(outcome) ==
    /\ sx.pc = "loop" /\ sx.i <= Len(sx.items)
    /\ sx.op = "search_and_extract" => ~NoUrl(sx.items[sx.i])
    /\ LET item == sx.items[sx.i]
           url == IF sx.op = "search_and_extract" THEN item.url ELSE item
           extracted == ExtractOutcome(outcome)
           called == [sx EXCEPT !.scraped =
                          Append(sx.scraped,
                                 Scrape(sx.i, url, sx.validated_formats, outcome))]
       IN  IF extracted.kind = "raise"
           THEN sx' = [called EXCEPT !.i = sx.i + 1]
           ELSE sx' = [called EXCEPT !.i = sx.i + 1,
                                     !.extracted_results =
                                         Append(sx.extracted_results,
                                                Extracted(sx.op, item, url, extracted.value))]
    /\ UNCHANGED <<ag, fs, run, dr, tl>>

\* the loop is over: return extracted_results, lines 236 and 299
LoopEnds ==
    /\ sx.pc = "loop" /\ sx.i > Len(sx.items)
    /\ sx' = [sx EXCEPT !.pc = "done", !.ret = Returned(sx.extracted_results)]
    /\ UNCHANGED <<ag, fs, run, dr, tl>>

(***************************************************************************)
(* The researcher's tools: _search_web, _deep_research_topic,              *)
(* _extract_from_url and _search_and_extract.                              *)
(***************************************************************************)
Tools == {"_search_web", "_deep_research_topic", "_extract_from_url",
          "_search_and_extract"}

\* a combine_results_for_llm that writes no separator
CombinedPartsNoSeparator(result, i, format, include_metadata) ==
    <<Get(result, "markdown", Get(result, "text", <<>>)), T("\n")>>

\* combine_results_for_llm, the parts one result adds to combined: lines 469-505
CombinedParts(result, i, format, include_metadata) ==
    LET metadata == Get(result, "metadata", <<>>)
        line(label, key) ==
            IF key \in DOMAIN metadata /\ metadata[key] # ""
            THEN <<T(label) \o T(metadata[key]) \o T("\n")>> ELSE <<>>
        heading ==
            IF include_metadata
            THEN <<T("# ") \o T(Get(metadata, "title", "Source " \o ToString(i))) \o T("\n"),
                   T("URL: ") \o T(Get(result, "url", "")) \o T("\n")>>
                     \o line("Description: ", "description")
                     \o line("Author: ", "author")
                     \o line("Date: ", "date")
                     \o <<T("\n")>>
            ELSE <<>>
        content ==
            IF format \in DOMAIN result THEN <<result[format]>>
            ELSE IF "markdown" \in DOMAIN result THEN <<result.markdown>>
            ELSE IF "text" \in DOMAIN result THEN <<result.text>>
            ELSE IF "html" \in DOMAIN result
                 THEN <<T("Content in html format:\n"), T(result.html)>>
            ELSE IF "json" \in DOMAIN result
                 THEN <<T("Content in json format:\n"), T(result.json)>>
            ELSE <<>>
    IN  <<T("\n") \o Rep("=", 80) \o T("\n")>> \o heading \o content \o <<T("\n")>>

RECURSIVE CombinedFrom(_, _, _, _)
CombinedFrom(results, i, format, include_metadata) ==
    IF i > Len(results) THEN <<>>
    ELSE CombinedParts(results[i], i, format, include_metadata)
             \o CombinedFrom(results, i + 1, format, include_metadata)

\* combine_results_for_llm: lines 466-507
combine_results_for_llm(results, format, include_metadata) ==
    Join(T("\n"), CombinedFrom(results, 1, format, include_metadata))

\* _search_web, what one result adds to formatted_results: lines 257-270
RECURSIVE SearchWebFrom(_, _)
SearchWebFrom(results, i) ==
    IF i > Len(results) THEN <<>>
    ELSE LET result == results[i]
             search_metadata == Get(result, "search_metadata", <<>>)
             url == Get(search_metadata, "url", "Unknown URL")
             title == Get(search_metadata, "title", "Result " \o ToString(i))
         IN  T("## ") \o T(title) \o T("\n")
                 \o T("Source: ") \o T(url) \o T("\n\n")
                 \o (IF "markdown" \in DOMAIN result
                     THEN Truncate(result.markdown, SearchWebCap) \o T("\n\n")
                     ELSE T("No content extracted\n\n"))
                 \o SearchWebFrom(results, i + 1)

\* a _search_web with no case for an empty list of results
FormatSearchWebAlways(results) == SearchWebFrom(results, 1)

\* _search_web once search_and_extract returned results: lines 254-275
FormatSearchWeb(results) ==
    IF results = <<>> THEN T("No search results found.")
    ELSE SearchWebFrom(results, 1)

RECURSIVE SummariesFrom(_, _)
SummariesFrom(summaries, i) ==
    IF i > Len(summaries) THEN <<>>
    ELSE T("### Summary ") \o T(ToString(i)) \o T("\n") \o T(summaries[i]) \o T("\n\n")
             \o SummariesFrom(summaries, i + 1)

RECURSIVE SourcesFrom(_, _)
SourcesFrom(sources, i) ==
    IF i > Len(sources) THEN <<>>
    ELSE T(ToString(i)) \o T(". [")
             \o T(Get(sources[i], "title", "Source " \o ToString(i)))
             \o T("](") \o T(Get(sources[i], "url", "Unknown URL")) \o T(")\n")
             \o SourcesFrom(sources, i + 1)

\* _deep_research_topic once deep_research returned: lines 302-324
FormatDeepResearch(research_results) ==
    IF ~Get(research_results, "success", FALSE)
    THEN T("Deep research failed: ") \o T(Get(research_results, "error", "Unknown error"))
    ELSE LET summaries == Get(research_results, "summaries", <<>>)
             sources == Get(research_results, "sources", <<>>)
         IN  T("# Deep Research Results\n\n")
                 \o (IF summaries # <<>>
                     THEN T("## Summaries\n\n") \o SummariesFrom(summaries, 1) ELSE <<>>)
                 \o (IF sources # <<>>
                     THEN T("## Sources\n\n") \o SourcesFrom(sources, 1) ELSE <<>>)

\* _extract_from_url once extract_from_url returned: lines 348-366
FormatExtract(url, result) ==
    LET metadata == Get(result, "metadata", <<>>)
        title == Get(metadata, "title", "")
    IN  T("# Content from ") \o T(url) \o T("\n\n")
            \o (IF title # "" THEN T("## ") \o T(title) \o T("\n\n") ELSE <<>>)
            \o (IF "markdown" \in DOMAIN result
                THEN Truncate(result.markdown, ExtractCap)
                ELSE T("No content extracted"))

\* _search_and_extract once search_and_extract returned: lines 391-402
FormatSearchAndExtract(results) ==
    Truncate(combine_results_for_llm(results, "markdown", TRUE), CombinedCap)

\* the parameters of WebToTextExtractor.extract_from_url: lines 58-60
ExtractFromUrlParameters == {"url", "formats", "timeout"}

\* the keyword arguments _extract_from_url passes: lines 342-346
ExtractFromUrlKeywords == {"url", "formats", "extract_metadata"}

\* the TypeError of a call with a keyword the callee does not take
UnexpectedKeyword ==
    "extract_from_url() got an unexpected keyword argument 'extract_metadata'"

\* the f-string of each tool's except clause: lines 279, 328, 370 and 406
ErrorPrefix(name) ==
    CASE name = "_search_web" -> "Error searching the web: "
      [] name = "_deep_research_topic" -> "Error performing deep research: "
      [] name = "_extract_from_url" -> "Error extracting content from URL: "
      [] name = "_search_and_extract" -> "Error searching and extracting: "

\* a tool with no except clause: what the extractor raised reaches the caller
ToolOutcomeUncaught(name, arg, outcome) ==
    IF outcome.kind = "raise" THEN Raised(outcome.value)
    ELSE Returned(T("ok"))

\* what a tool makes of the extractor's outcome: its try body on a return, its
\* except clause on a raise
ToolOutcome(name, arg, outcome) ==
    IF outcome.kind = "raise"
    THEN Returned(T(ErrorPrefix(name)) \o T(outcome.value))
    ELSE Returned(CASE name = "_search_web" -> FormatSearchWeb(outcome.value)
                    [] name = "_deep_research_topic" -> FormatDeepResearch(outcome.value)
                    [] name = "_extract_from_url" -> FormatExtract(arg, outcome.value)
                    [] name = "_search_and_extract" -> FormatSearchAndExtract(outcome.value))

TlIdle == [pc |-> "idle", name |-> Null, arg |-> Null, exc |-> Null, ret |-> NoOutcome]

\* _search_web(query) or _search_and_extract(query) is called and calls
\* search_and_extract(formats=["markdown"]): lines 246-252 and 383-389
SearchToolCalled(name, query, use_local_docker) ==
    /\ ExtractorIdle
    /\ name \in {"_search_web", "_search_and_extract"}
    /\ tl' = [TlIdle EXCEPT !.pc = "calling", !.name = name, !.arg = query]
    /\ sx' = StartSearch(<<"markdown">>, use_local_docker)
    /\ UNCHANGED <<ag, fs, run, dr>>

\* _deep_research_topic(query) is called and calls deep_research: lines 293-300
DeepResearchToolCalled(query) ==
    /\ ExtractorIdle
    /\ tl' = [TlIdle EXCEPT !.pc = "calling", !.name = "_deep_research_topic",
                            !.arg = query]
    /\ dr' = StartDeepResearch(query)
    /\ UNCHANGED <<ag, fs, run, sx>>

\* _extract_from_url(url) is called: lines 340-346 and 368-370; the call of
\* extract_from_url passes extract_metadata, which it does not take, so the
\* call raises TypeError before the extractor runs
ExtractToolCalled(url, use_local_docker) ==
    /\ ExtractorIdle
    /\ IF ExtractFromUrlKeywords \subseteq ExtractFromUrlParameters
       THEN /\ tl' = [TlIdle EXCEPT !.pc = "calling", !.name = "_extract_from_url",
                                    !.arg = url]
            /\ sx' = StartExtract(url, <<"markdown">>, use_local_docker)
       ELSE /\ tl' = [TlIdle EXCEPT
                         !.pc = "done", !.name = "_extract_from_url", !.arg = url,
                         !.exc = UnexpectedKeyword,
                         !.ret = ToolOutcome("_extract_from_url", url,
                                             Raised(UnexpectedKeyword))]
            /\ sx' = sx
    /\ UNCHANGED <<ag, fs, run, dr>>

\* the extractor's call ends and the tool returns
ToolReturns ==
    /\ tl.pc = "calling"
    /\ IF tl.name = "_deep_research_topic" THEN dr.pc = "done" ELSE sx.pc = "done"
    /\ LET outcome == IF tl.name = "_deep_research_topic" THEN dr.ret ELSE sx.ret
       IN  tl' = [tl EXCEPT !.pc = "done",
                            !.exc = IF outcome.kind = "raise" THEN outcome.value ELSE Null,
                            !.ret = ToolOutcome(tl.name, tl.arg, outcome)]
    /\ UNCHANGED <<ag, fs, run, dr, sx>>

\* the results combine_results_for_llm is given: a processed page, a page
\* whose text is a line of 80 '=', a page with html only, a text with
\* metadata that has no title, and what extract_from_url returns for each
\* answer of app.scrape_url
CombineInputs ==
    {[markdown |-> T("md1"), url |-> "u1",
      metadata |-> [title |-> "T1", description |-> "D1", author |-> "", date |-> ""]],
     [markdown |-> Rep("=", 80)],
     [html |-> "h3"],
     [text |-> T("tx4"), metadata |-> [description |-> "D4"]]}
        \cup {process_scrape_result(result) : result \in RawResults}

\* the formats combine_results_for_llm is asked for
CombineFormats == {"markdown", "text"}

\* combine_results_for_llm(results, format, include_metadata) is called on the
\* extractor and returns: lines 452-507
CombineResultsForLlm(results, format, include_metadata) ==
    /\ ExtractorIdle
    /\ sx' = [SxIdle EXCEPT
                 !.pc = "done", !.op = "combine_results_for_llm",
                 !.items = results, !.formats = <<format>>,
                 !.include_metadata = include_metadata,
                 !.ret = Returned(combine_results_for_llm(results, format,
                                                          include_metadata))]
    /\ UNCHANGED <<ag, fs, run, dr, tl>>

NextExt ==
    \/ \E query \in Queries : DeepResearch(query)
    \/ \E results \in SeqsUpTo(CombineInputs, MaxResults), format \in CombineFormats,
             include_metadata \in BOOLEAN :
           CombineResultsForLlm(results, format, include_metadata)
    \/ \E url \in Urls, formats \in FormatLists, use_local_docker \in BOOLEAN :
           ExtractFromUrl(url, formats, use_local_docker)
    \/ \E outcome \in ScrapeOutcomes : ScrapeEnds(outcome)
    \/ \E formats \in FormatLists, use_local_docker \in BOOLEAN :
           SearchAndExtract(formats, use_local_docker)
    \/ \E search_results \in SearchResponses : SearchAnswers(search_results)
    \/ \E formats \in FormatLists, max_pages \in MaxPagesChoices,
             use_local_docker \in BOOLEAN :
           MapWebsiteAndExtract(formats, max_pages, use_local_docker)
    \/ \E map_result \in MapResponses : MapAnswers(map_result)
    \/ \E msg \in Errors : BatchRaises(msg)
    \/ LoopSkip
    \/ \E outcome \in ScrapeOutcomes : LoopScrape(outcome)
    \/ LoopEnds
    \/ \E name \in Tools, query \in Queries, use_local_docker \in BOOLEAN :
           SearchToolCalled(name, query, use_local_docker)
    \/ \E query \in Queries : DeepResearchToolCalled(query)
    \/ \E url \in Urls, use_local_docker \in BOOLEAN :
           ExtractToolCalled(url, use_local_docker)
    \/ ToolReturns
    \/ \E research_response \in SubmitResponses : Submit(research_response)
    \/ \E status_response \in StatusResponses : Poll(status_response)
    \/ Sleep
    \/ \E msg \in Errors : RemoteRaises(msg)

(***************************************************************************)
(* save_research_results.  A topic is a text whose runs are of one         *)
(* character each: [s, n] is the character s, n times.                     *)
(***************************************************************************)
\* the number of calls of save_research_results looked at
MaxSaves == 2

\* the clock readings looked at: the seconds 0..MaxTick of one minute
MaxTick == 1

\* the cap of line 468
TopicCap == 50

\* the text with adjacent runs of the same character made one run
RECURSIVE Normalize(_)
Normalize(text) ==
    IF Len(text) < 2 THEN text
    ELSE LET rest == Normalize(Tail(text))
         IN  IF Head(text).s = Head(rest).s
             THEN <<[s |-> Head(text).s, n |-> Head(text).n + Head(rest).n]>>
                      \o Tail(rest)
             ELSE <<Head(text)>> \o rest

\* the characters of the topics: letters and digits (ASCII or not), space,
\* hyphen, underscore, and a character that is none of these
TopicChars == {"a", "7", "é", " ", "-", "_", "/"}

\* c.isalnum(): a letter or a digit of any script
isalnum(c) == c \in {"a", "7", "é"}

\* the topics given: empty, short, with characters to replace, two that differ
\* only where they are replaced, two that differ only after the cap
Topics ==
    {<<>>,
     <<[s |-> "a", n |-> 1]>>,
     <<[s |-> "a", n |-> 1], [s |-> "/", n |-> 1], [s |-> "é", n |-> 1]>>,
     <<[s |-> "a", n |-> 1], [s |-> "_", n |-> 1], [s |-> "é", n |-> 1]>>,
     <<[s |-> "a", n |-> 1], [s |-> " ", n |-> 1], [s |-> "-", n |-> 1],
       [s |-> "7", n |-> 1]>>,
     <<[s |-> "a", n |-> TopicCap], [s |-> "/", n |-> 1]>>,
     <<[s |-> "a", n |-> TopicCap], [s |-> "é", n |-> 1]>>}

\* the results given
Bodies == {T("body1"), T("body2")}

\* a sanitizer that keeps every character
KeepAll(c) == c

\* c if c.isalnum() or c in " -_" else "_": line 467
Keep(c) == IF isalnum(c) \/ c \in {" ", "-", "_"} THEN c ELSE "_"

\* "".join(... for c in topic): line 467
Sanitize(topic) ==
    Normalize([k \in 1..Len(topic) |-> [s |-> Keep(topic[k].s), n |-> topic[k].n]])

\* two decimal digits, as %S writes the second
Pad2(t) == IF t < 10 THEN "0" \o ToString(t) ELSE ToString(t)

\* datetime.now().strftime("%Y%m%d_%H%M%S") at second t of the minute: line 471
Timestamp(t) == T("20261103_1200" \o Pad2(t))

\* datetime.now().strftime("%Y-%m-%d %H:%M:%S") at second t: line 479
GeneratedOn(t) == T("2026-11-03 12:00:" \o Pad2(t))

\* filename: lines 467-474
Filename(topic, t) ==
    T("research_") \o Take(Sanitize(topic), TopicCap) \o T("_") \o Timestamp(t)
        \o T(".md")

\* content: lines 477-482
Content(topic, results, t) ==
    T("# Research Results: ") \o topic \o T("\n\n## Generated on ")
        \o GeneratedOn(t) \o T("\n\n") \o results \o T("\n")

\* second 0, no file written
NoFiles == [now |-> 0, files |-> {}, writes |-> <<>>]

\* the clock passes to the next second
Tick ==
    /\ fs.now < MaxTick
    /\ fs' = [fs EXCEPT !.now = fs.now + 1]
    /\ UNCHANGED <<run, dr, sx, tl, ag>>

\* save_research_results(topic, results): lines 466-489; the clock is read
\* twice, the second time later seconds after the first; open(filename, "w")
\* replaces a file of that name
SaveResearchResults(topic, results, later) ==
    /\ Len(fs.writes) < MaxSaves
    /\ fs.now + later <= MaxTick
    /\ LET filename == Filename(topic, fs.now)
           content == Content(topic, results, fs.now + later)
       IN  fs' = [now |-> fs.now + later,
                  files |-> {f \in fs.files : f.name # filename}
                                \cup {[name |-> filename, content |-> content]},
                  writes |-> Append(fs.writes,
                                    [topic |-> topic, results |-> results,
                                     filename |-> filename, content |-> content])]
    /\ UNCHANGED <<run, dr, sx, tl, ag>>

NextSave ==
    \/ Tick
    \/ \E topic \in Topics, results \in Bodies, later \in {0, 1} :
           SaveResearchResults(topic, results, later)

(***************************************************************************)
(* The agent: DeepResearchAgent.__init__, _initialize_cloud_api and        *)
(* _create_agents.                                                         *)
(***************************************************************************)
\* a or b, on strings and None
Or(a, b) == IF a \in {Null, ""} THEN b ELSE a

\* the arguments of DeepResearchAgent(...): line 41
AgentArgs ==
    [openai_api_key : {Null, "", "sk-arg"}, use_local_docker : BOOLEAN,
     firecrawl_api_key : {Null, "", "fc-arg"}]

\* os.environ, the two variables the constructor reads
Environs == [OPENAI_API_KEY : {Null, "sk-env"}, FIRECRAWL_API_KEY : {Null, "fc-env"}]

\* FirecrawlApp(...), called by WebToTextExtractor.__init__, returns or raises
AppOutcomes == {"ok", "raise"}

NoExtractor == [kind |-> "none"]

\* WebToTextExtractor.create_with_local_docker(): web_to_text.py, line 521
LocalExtractor ==
    [kind |-> "extractor", use_local_docker |-> TRUE, api_key |-> Null,
     api_url |-> "http://localhost:3002"]

\* WebToTextExtractor() and WebToTextExtractor(api_key=api_key): lines 88 and 91
CloudExtractor(api_key) ==
    [kind |-> "extractor", use_local_docker |-> FALSE, api_key |-> api_key,
     api_url |-> Null]

\* _initialize_cloud_api once FirecrawlApp has returned: lines 85-91
initialize_cloud_api(firecrawl_api_key, environ) ==
    LET api_key == Or(firecrawl_api_key, environ.FIRECRAWL_API_KEY)
    IN  IF api_key \in {Null, ""} THEN CloudExtractor(Null) ELSE CloudExtractor(api_key)

\* the function tools that call a method using self.extractor: lines 113-156
ExtractionTools ==
    {"search_web", "deep_research_topic", "extract_from_url", "search_and_extract"}

\* agents that give the synthesis agent a search tool
AgentToolsSynthesisSearches ==
    [planner |-> {"generate_search_queries"},
     researcher |-> ExtractionTools,
     synthesis |-> {"search_web"}]

\* the tools=[...] of the three Agent(...) of lines 162-208
AgentTools ==
    [planner |-> {"generate_search_queries"},
     researcher |-> ExtractionTools,
     synthesis |-> {}]

\* _create_agents: lines 211-217
create_agents ==
    {[key |-> "planner", name |-> "ResearchPlanner"],
     [key |-> "researcher", name |-> "WebResearcher"],
     [key |-> "synthesis", name |-> "SynthesisAgent"]}

\* no agent has been constructed; args holds the defaults of line 41
NoAgent ==
    [pc |-> "none",
     args |-> [openai_api_key |-> Null, use_local_docker |-> TRUE,
               firecrawl_api_key |-> Null],
     environ |-> [OPENAI_API_KEY |-> Null, FIRECRAWL_API_KEY |-> Null],
     openai_api_key |-> Null, extractor |-> NoExtractor, agents |-> {},
     raised |-> Null]

\* DeepResearchAgent(openai_api_key="sk-arg") with the local instance up
ReadyAgent ==
    [NoAgent EXCEPT !.pc = "ready", !.args.openai_api_key = "sk-arg",
                    !.environ.OPENAI_API_KEY = "sk-arg",
                    !.openai_api_key = "sk-arg", !.extractor = LocalExtractor,
                    !.agents = create_agents]

\* DeepResearchAgent(...) is called: lines 50-61, up to the construction of
\* the extractor
Construct(args, environ) ==
    /\ ag.pc = "none"
    /\ LET openai_api_key == Or(args.openai_api_key, environ.OPENAI_API_KEY)
       IN  IF openai_api_key \in {Null, ""}
           THEN ag' = [NoAgent EXCEPT !.pc = "failed", !.args = args,
                                      !.environ = environ,
                                      !.openai_api_key = openai_api_key,
                                      !.raised = "ValueError"]
           ELSE ag' = [NoAgent EXCEPT !.pc = "extractor", !.args = args,
                                      !.environ = [environ EXCEPT
                                                      !.OPENAI_API_KEY = openai_api_key],
                                      !.openai_api_key = openai_api_key]
    /\ UNCHANGED <<run, dr, sx, tl, fs>>

\* the extractor is constructed, or its construction raises, and the agents
\* are created: lines 58-73.  local is the outcome of FirecrawlApp for the
\* local instance, cloud its outcome for the cloud service
ExtractorCreated(local, cloud) ==
    /\ ag.pc = "extractor"
    /\ IF ag.args.use_local_docker /\ local = "ok"
       THEN ag' = [ag EXCEPT !.pc = "ready", !.extractor = LocalExtractor,
                             !.agents = create_agents]
       ELSE IF cloud = "ok"
       THEN ag' = [ag EXCEPT !.pc = "ready",
                             !.extractor = initialize_cloud_api(
                                               ag.args.firecrawl_api_key, ag.environ),
                             !.agents = create_agents]
       ELSE ag' = [ag EXCEPT !.pc = "failed", !.raised = "Exception"]
    /\ UNCHANGED <<run, dr, sx, tl, fs>>

NextAgent ==
    \/ \E args \in AgentArgs, environ \in Environs : Construct(args, environ)
    \/ \E local \in AppOutcomes, cloud \in AppOutcomes : ExtractorCreated(local, cloud)

(***************************************************************************)
(* The delegates' tool calls: Runner.run(agent, input) lets the agent call *)
(* the function tools of its tools=[...], any number of times, in any      *)
(* order.                                                                  *)
(***************************************************************************)
\* the tool calls recorded per run of research()
MaxToolCalls == 2

\* every function tool _create_agents defines: lines 100-156
ToolNames == {"generate_search_queries"} \cup ExtractionTools

\* the delegate of the stage in flight calls one of the tools it was given
DelegateCallsTool(c, name) ==
    /\ UNCHANGED <<ag, fs, dr, sx, tl>>
    /\ run[c].pc \in {"planner", "researcher", "synthesis"}
    /\ name \in AgentTools[run[c].pc]
    /\ Len(run[c].called) < MaxToolCalls
    /\ run' = [run EXCEPT ![c].called = @ \o <<[stage |-> run[c].pc, tool |-> name]>>]

\* one run of research(), with the tool calls of its delegates
NextTools ==
    LET c == "c1"
    IN  \/ \E q \in Questions : Research(c, q)
        \/ \E items \in NewItems : PlannerReturns(c, items)
        \/ \E items \in NewItems : ResearcherReturns(c, items)
        \/ \E items \in NewItems : SynthesisReturns(c, items)
        \/ \E msg \in Messages : StageRaises(c, msg)
        \/ \E name \in ToolNames : DelegateCallsTool(c, name)

(***************************************************************************)
(* The specifications: no call has been made yet; Spec is the pipeline,    *)
(* SpecExt the extractor, SpecAgent the construction of the agent.         *)
(***************************************************************************)
NoCall ==
    /\ run = [c \in Calls |-> NotStarted]
    /\ dr = DrIdle
    /\ sx = SxIdle
    /\ tl = TlIdle
    /\ fs = NoFiles

\* an agent has been constructed
Init == NoCall /\ ag = ReadyAgent

\* no agent has been constructed yet
InitAgent == NoCall /\ ag = NoAgent

SpecAgent == InitAgent /\ [][NextAgent]_vars

SpecSave == Init /\ [][NextSave]_vars

Spec == Init /\ [][Next]_vars

SpecTools == Init /\ [][NextTools]_vars

SpecExt == Init /\ [][NextExt]_vars

\* a step of the running deep_research call: a remote call it waits for
\* answers or raises, or its sleep ends
DrStep ==
    \/ \E research_response \in SubmitResponses : Submit(research_response)
    \/ \E status_response \in StatusResponses : Poll(status_response)
    \/ Sleep
    \/ \E msg \in Errors : RemoteRaises(msg)

\* deep_research alone, called on the extractor
NextDr ==
    \/ \E query \in Queries : DeepResearch(query)
    \/ DrStep

\* deep_research called on the extractor, with every remote call answered
\* (or raising) and every sleep ended
FairSpecDr == Init /\ [][NextDr]_vars /\ WF_vars(DrStep)

(***************************************************************************)
(* Claims about the pipeline.                                              *)
(***************************************************************************)
\* the invocations of a run in which no stage raises
FullLog ==
    <<Call("planner"), Return("planner"), Call("researcher"), Return("researcher"),
      Call("synthesis"), Return("synthesis")>>

IsPrefix(s, t) == Len(s) <= Len(t) /\ SubSeq(t, 1, Len(s)) = s

\* the number of invocations of stage st in log l
Invocations(l, st) == Cardinality({i \in 1..Len(l) : l[i] = Call(st)})

\* C1: in a run of research() in which no stage raises, the language-model
\* service is invoked exactly three times, planner, researcher, synthesis in
\* that order, each invocation after the previous one returned, none twice.
C1_ThreeStagesInOrder ==
    \A c \in Calls :
        run[c].raised = "none" =>
            /\ IsPrefix(run[c].log, FullLog)
            /\ run[c].pc = "done" =>
                   /\ run[c].log = FullLog
                   /\ \A st \in {"planner", "researcher", "synthesis"} :
                          Invocations(run[c].log, st) = 1

\* a run with no raise has ended, while the other call is still in flight
C1_Witness ==
    \E c, d \in Calls :
        /\ run[c].pc = "done" /\ run[c].raised = "none"
        /\ run[d].pc = "researcher"

\* where stage st's invocation ends in FullLog
CallIndex(st) == CHOOSE i \in 1..Len(FullLog) : FullLog[i] = Call(st)

\* C2: when a stage raises, research() returns 'Error performing research:
\* <message>' instead of raising, no later stage is invoked and the failed
\* stage is not invoked again.
C2_StageFailureBecomesString ==
    \A c \in Calls :
        run[c].raised # "none" =>
            /\ run[c].pc = "done"
            /\ run[c].outcome = "returned"
            /\ run[c].exc \in Messages
            /\ run[c].ret = <<"Error performing research: ">> \o run[c].exc
            /\ run[c].log = SubSeq(FullLog, 1, CallIndex(run[c].raised))
                                \o <<Raise(run[c].raised)>>
            /\ Invocations(run[c].log, run[c].raised) = 1

\* the researcher raised after the planner returned
C2_Witness ==
    \E c \in Calls :
        /\ run[c].raised = "researcher"
        /\ run[c].planning_output # <<>>
        /\ run[c].pc = "done"

\* C3: the researcher's input holds the question and the planner's output
\* verbatim, the synthesis input holds the question and the researcher's output
\* verbatim, the planner's input holds no stage output, and the value returned
\* is exactly the synthesis stage's output.
C3_OutputsThreadedVerbatim ==
    \A c \in Calls :
        /\ run[c].input["planner"] # None =>
               /\ Contains(run[c].input["planner"], run[c].question)
               /\ \A t \in Texts : ~Contains(run[c].input["planner"], t)
        /\ run[c].input["researcher"] # None =>
               /\ Contains(run[c].input["researcher"], run[c].question)
               /\ Contains(run[c].input["researcher"], run[c].planning_output)
               /\ Len(run[c].input["researcher"])
                      = 3 + Len(run[c].question) + Len(run[c].planning_output)
        /\ run[c].input["synthesis"] # None =>
               /\ Contains(run[c].input["synthesis"], run[c].question)
               /\ Contains(run[c].input["synthesis"], run[c].research_output)
               /\ Len(run[c].input["synthesis"])
                      = 3 + Len(run[c].question) + Len(run[c].research_output)
        /\ (run[c].pc = "done" /\ run[c].raised = "none") =>
               /\ run[c].outcome = "returned"
               /\ run[c].ret = run[c].final_output

\* a run ended with three non-empty, pairwise different stage outputs
C3_Witness ==
    \E c \in Calls :
        /\ run[c].pc = "done" /\ run[c].raised = "none"
        /\ run[c].planning_output # <<>>
        /\ run[c].research_output # <<>>
        /\ run[c].final_output # <<>>
        /\ run[c].planning_output # run[c].research_output
        /\ run[c].research_output # run[c].final_output

(***************************************************************************)
(* Claims about deep_research.                                             *)
(***************************************************************************)
\* the places of the polls among the kept events
PollPlaces == {i \in 1..Len(dr.events) : dr.events[i].ev = "poll"}

HasPolled == PollPlaces # {}

\* the answer of the latest poll
LastPoll == dr.events[CHOOSE i \in PollPlaces : \A j \in PollPlaces : j <= i].resp

\* C4: after a successful submission deep_research goes on polling exactly
\* while the last polled status is 'processing' or 'scraping'; the first 'done'
\* returns the success snapshot of that poll's sources and summaries, the first
\* 'error' returns the error snapshot of that poll's error, and no poll follows
\* a poll that reported a terminal status.
C4_PollUntilTerminal ==
    /\ \A i, j \in PollPlaces :
           i < j => dr.events[i].resp.status \in {"processing", "scraping"}
    /\ HasPolled =>
          /\ dr.pc = "poll" => LastPoll.status \in {"processing", "scraping"}
          /\ LastPoll.status \in {"processing", "scraping"} =>
                 \/ dr.pc \in {"sleep", "poll"}
                 \/ dr.pc = "done" /\ dr.ret.kind = "raise"
          /\ LastPoll.status = "done" =>
                 /\ dr.pc = "done"
                 /\ dr.ret.kind = "return"
                 /\ dr.ret.value.success = TRUE
                 /\ dr.ret.value.sources = LastPoll.sources
                 /\ dr.ret.value.summaries = LastPoll.summaries
          /\ LastPoll.status = "error" =>
                 /\ dr.pc = "done"
                 /\ dr.ret = [kind |-> "return",
                              value |-> [success |-> FALSE, error |-> LastPoll.error]]

\* a 'scraping' poll was followed by a 'done' poll with sources and summaries
C4_Witness ==
    /\ dr.pc = "done"
    /\ HasPolled
    /\ LastPoll.status = "done"
    /\ LastPoll.sources # <<>>
    /\ LastPoll.summaries # <<>>
    /\ \E i \in PollPlaces : dr.events[i].resp.status = "scraping"

\* C5: when the submission reports failure, deep_research returns an error
\* snapshot carrying the submission's error and issues no status poll.
C5_SubmitFailureNoPoll ==
    (~IsNone(dr.research_response) /\ ~dr.research_response.success) =>
        /\ dr.pc = "done"
        /\ dr.ret = [kind |-> "return",
                     value |-> [success |-> FALSE,
                                error |-> dr.research_response.error]]
        /\ dr.events = <<>>
        /\ ~dr.dropped

\* a submission failed with an error
C5_Witness ==
    /\ ~IsNone(dr.research_response)
    /\ ~dr.research_response.success
    /\ dr.research_response.error = "e1"
    /\ dr.pc = "done"

\* C6: no client-side poll limit: the call returns after a poll only when the
\* last status is other than 'processing'/'scraping', it does return once such a
\* status was polled, and while the status polled is 'processing' or 'scraping'
\* every sleep is followed by another poll, however many polls have passed.
C6_NoClientCutoff ==
    /\ []((dr.pc = "done" /\ dr.ret.kind = "return" /\ HasPolled)
             => LastPoll.status \notin {"processing", "scraping"})
    /\ ((dr.pc = "sleep" /\ dr.status \notin {"processing", "scraping"})
             ~> dr.pc = "done")
    /\ ((dr.pc = "sleep" /\ dr.status \in {"processing", "scraping"})
             ~> dr.pc = "poll")
    /\ (dr.pc = "poll" ~> dr.pc \in {"sleep", "done"})

\* more events than are kept have passed and the call is about to poll again
C6_Witness ==
    /\ dr.dropped
    /\ dr.pc = "poll"
    /\ \A i \in PollPlaces : dr.events[i].resp.status \in {"processing", "scraping"}

\* C7 as stated: a call that returns after a poll has last seen 'done' (success)
\* or 'error' (failure with the remote's error), and nothing else.
C7_OnlyDoneOrErrorEnds ==
    (dr.pc = "done" /\ dr.ret.kind = "return" /\ HasPolled) =>
        \/ LastPoll.status = "done" /\ dr.ret.value.success = TRUE
        \/ /\ LastPoll.status = "error"
           /\ dr.ret.value = [success |-> FALSE, error |-> LastPoll.error]

\* C7 as amended: a call that returns after a poll has last seen a status other
\* than 'processing'/'scraping': 'done' gives success, 'error' gives failure
\* with the remote's error, and any other status gives the failure snapshot
\* 'Research timed out'; what is returned is always a snapshot with a success
\* field.
C7_EndsOnAnyOtherStatus ==
    (dr.pc = "done" /\ dr.ret.kind = "return" /\ HasPolled) =>
        /\ LastPoll.status \notin {"processing", "scraping"}
        /\ "success" \in DOMAIN dr.ret.value
        /\ dr.ret.value.success = (LastPoll.status = "done")
        /\ LastPoll.status = "error" => dr.ret.value.error = LastPoll.error
        /\ LastPoll.status \notin {"done", "error"} =>
               dr.ret.value = [success |-> FALSE, error |-> "Research timed out"]

\* a poll reported a status the code does not name, and the call returned
C7_Witness ==
    /\ dr.pc = "done"
    /\ dr.ret.kind = "return"
    /\ HasPolled
    /\ LastPoll.status = "other"

(***************************************************************************)
(* Claims about search_and_extract and map_website_and_extract.            *)
(***************************************************************************)
\* the scrapes that answered, in the order made
OkScrapes == SelectSeq(sx.scraped, LAMBDA e : e.ok)

\* the url an entry of the returned sequence was extracted from
UrlOf(extracted) ==
    IF sx.op = "search_and_extract" THEN extracted.search_metadata.url
    ELSE extracted.url

\* the entries of the loop that have a url to scrape
WithUrl ==
    {k \in 1..Len(sx.items) : sx.op = "search_and_extract" => ~NoUrl(sx.items[k])}

\* C8: in search_and_extract a scrape failure skips only its own url: every
\* entry is scraped at most once, in order, the later ones are still scraped,
\* the successful extractions are what is returned, and the call raises only
\* when the search step raised.
C8_ScrapeFailureSkipsOnlyThatUrl ==
    sx.op = "search_and_extract" =>
        /\ \A j, k \in 1..Len(sx.scraped) : j < k => sx.scraped[j].i < sx.scraped[k].i
        /\ {sx.scraped[k].i : k \in 1..Len(sx.scraped)}
               = {k \in WithUrl : k < sx.i}
        /\ (sx.pc = "done" /\ sx.ret.kind = "return" /\ sx.items # <<>>) =>
               /\ {sx.scraped[k].i : k \in 1..Len(sx.scraped)} = WithUrl
               /\ Len(sx.ret.value) = Len(OkScrapes)
               /\ \A k \in 1..Len(OkScrapes) :
                      sx.ret.value[k].search_metadata.url = OkScrapes[k].url
        /\ (sx.pc = "done" /\ sx.ret.kind = "raise") =>
               /\ sx.raised_at = "search"
               /\ sx.scraped = <<>>

\* the first url failed, the second was still scraped and is what is returned
C8_Witness ==
    /\ sx.op = "search_and_extract"
    /\ sx.pc = "done"
    /\ Len(sx.scraped) = 2
    /\ ~sx.scraped[1].ok
    /\ sx.scraped[2].ok
    /\ sx.ret.kind = "return"
    /\ Len(sx.ret.value) = 1
    /\ sx.ret.value[1].search_metadata.url = sx.scraped[2].url

\* C9 as stated: the returned sequence of a batch operation has one entry for
\* each url scraped, so it is as long as the number of urls scraped.
C9_OneEntryPerUrlScraped ==
    (sx.op \in {"search_and_extract", "map_website_and_extract"}
        /\ sx.pc = "done" /\ sx.ret.kind = "return") =>
            Len(sx.ret.value) = Len(sx.scraped)

\* C9 as amended: the returned sequence of a batch operation has one entry, in
\* order, for each url whose scrape succeeded and none for a url whose scrape
\* failed; every entry with a url is scraped, a repeated url once per entry.
C9_OneEntryPerUrlExtracted ==
    (sx.op \in {"search_and_extract", "map_website_and_extract"}
        /\ sx.pc = "done" /\ sx.ret.kind = "return") =>
            /\ Len(sx.scraped) = Cardinality(WithUrl)
            /\ \A k \in 1..Len(sx.scraped) :
                   sx.scraped[k].url =
                       IF sx.op = "search_and_extract"
                       THEN sx.items[sx.scraped[k].i].url
                       ELSE sx.items[sx.scraped[k].i]
            /\ Len(sx.ret.value) = Len(OkScrapes)
            /\ Len(sx.ret.value) <= Len(sx.scraped)
            /\ \A k \in 1..Len(OkScrapes) : UrlOf(sx.ret.value[k]) = OkScrapes[k].url

\* a site map named the same url twice; it was scraped twice, one scrape failed
\* and one entry was returned
C9_Witness ==
    /\ sx.op = "map_website_and_extract"
    /\ sx.pc = "done"
    /\ sx.ret.kind = "return"
    /\ Len(sx.scraped) = 2
    /\ sx.scraped[1].url = sx.scraped[2].url
    /\ sx.scraped[1].ok /\ ~sx.scraped[2].ok
    /\ Len(sx.ret.value) = 1

(***************************************************************************)
(* Claims about the researcher's tools.                                    *)
(***************************************************************************)
\* what the extractor call of the running tool raised, if it raised
ToolCaught ==
    IF tl.name = "_extract_from_url" THEN
        (IF sx.pc = "idle"
         THEN [kind |-> "raise",
               value |-> "extract_from_url() got an unexpected keyword argument 'extract_metadata'"]
         ELSE sx.ret)
    ELSE IF tl.name = "_deep_research_topic" THEN dr.ret
    ELSE sx.ret

\* C10: whatever exception the extractor raises, each of the four researcher
\* tools returns a formatted error string, its own prefix followed by the
\* exception's message, and never raises.
C10_ToolsReturnErrorStrings ==
    /\ tl.ret.kind # "raise"
    /\ tl.pc = "done" =>
          /\ tl.name \in {"_search_web", "_deep_research_topic", "_extract_from_url",
                          "_search_and_extract"}
          /\ tl.ret.kind = "return"
          /\ ToolCaught.kind = "raise" =>
                LET prefix ==
                        CASE tl.name = "_search_web" -> "Error searching the web: "
                          [] tl.name = "_deep_research_topic" ->
                                 "Error performing deep research: "
                          [] tl.name = "_extract_from_url" ->
                                 "Error extracting content from URL: "
                          [] tl.name = "_search_and_extract" ->
                                 "Error searching and extracting: "
                IN  tl.ret.value = <<[s |-> prefix, n |-> Len(prefix)],
                                     [s |-> ToolCaught.value,
                                      n |-> Len(ToolCaught.value)]>>

\* a status poll of deep_research raised after an earlier poll, and
\* _deep_research_topic returned the error string for it
C10_Witness ==
    /\ tl.pc = "done"
    /\ tl.name = "_deep_research_topic"
    /\ dr.ret = [kind |-> "raise", value |-> "e2"]
    /\ HasPolled
    /\ tl.ret = [kind |-> "return",
                 value |-> <<[s |-> "Error performing deep research: ", n |-> 32],
                             [s |-> "e2", n |-> 2]>>]

(***************************************************************************)
(* Claims about extract_from_url.                                          *)
(***************************************************************************)
\* the formats the caller of the k-th scrape asked extract_from_url for
AskedFormats == IF sx.op = "extract_from_url" THEN sx.formats ELSE sx.validated_formats

\* C11: with either backend, the formats sent to the remote scrape are all
\* supported names, and are exactly ['markdown'] when no name asked for is
\* supported.
C11_SentFormatsSupported ==
    \A k \in 1..Len(sx.scraped) :
        LET sent == sx.scraped[k].params.formats
        IN  /\ \A j \in 1..Len(sent) :
                   sent[j] \in {"markdown", "html", "rawHtml", "links", "json",
                                "screenshot", "screenshot@fullPage", "extract"}
            /\ (\A j \in 1..Len(AskedFormats) :
                    AskedFormats[j] \notin {"markdown", "html", "rawHtml", "links",
                                            "json", "screenshot",
                                            "screenshot@fullPage", "extract"})
                   => sent = <<"markdown">>

\* C12 as stated: when the remote scrape fails, extract_from_url raises an
\* ExtractionError carrying the original message, after one scrape and with no
\* value returned.
C12_RaisesExtractionError ==
    (sx.op = "extract_from_url" /\ sx.pc = "done" /\ ~sx.scraped[1].ok) =>
        /\ Len(sx.scraped) = 1
        /\ sx.ret.kind = "raise"
        /\ sx.ret.value = sx.scraped[1].exc.value
        /\ sx.ret.type = "ExtractionError"

\* C12 as amended: when the remote scrape fails, extract_from_url raises the
\* exception the scrape raised, of the same class and with the same message,
\* after one scrape and with no value returned.
C12_RaisesOriginalException ==
    (sx.op = "extract_from_url" /\ sx.pc = "done" /\ ~sx.scraped[1].ok) =>
        /\ Len(sx.scraped) = 1
        /\ sx.ret.kind = "raise"
        /\ sx.ret = sx.scraped[1].exc

\* the scrape of extract_from_url timed out and the call raised
C12_Witness ==
    /\ sx.op = "extract_from_url"
    /\ sx.pc = "done"
    /\ ~sx.scraped[1].ok
    /\ sx.scraped[1].exc.type = "Timeout"
    /\ sx.ret.kind = "raise"

(***************************************************************************)
(* Claims about what the tools return.                                     *)
(***************************************************************************)
\* content as a truncating operation with the given cap is to emit it
Emitted(content, cap) ==
    IF TextLen(content) <= cap THEN content
    ELSE Take(content, cap) \o <<[s |-> "...[content truncated]", n |-> 22]>>

\* text ends with suffix
EndsWith(text, suffix) ==
    /\ Len(suffix) <= Len(text)
    /\ SubSeq(text, Len(text) - Len(suffix) + 1, Len(text)) = suffix

\* the tool has returned what it made of the value the extractor returned
ToolFormatted(name) ==
    /\ tl.pc = "done"
    /\ tl.name = name
    /\ tl.exc = "None"

\* the truncating operations that format a search: _search_web emits the
\* markdown of a single result within 2000 characters, _search_and_extract the
\* combined text within 4000
SearchCapsApplied ==
    /\ (ToolFormatted("_search_web") /\ Len(sx.ret.value) = 1
            /\ "markdown" \in DOMAIN sx.ret.value[1]) =>
           EndsWith(tl.ret.value,
                    Emitted(sx.ret.value[1].markdown, 2000)
                        \o <<[s |-> "\n\n", n |-> 2]>>)
    /\ ToolFormatted("_search_and_extract") =>
           tl.ret.value =
               Emitted(combine_results_for_llm(sx.ret.value, "markdown", TRUE), 4000)

\* C13: each truncating operation emits content longer than its cap (2000 in
\* _search_web, 3000 in _extract_from_url, 4000 in _search_and_extract) as its
\* first cap characters followed by '...[content truncated]', and content
\* within the cap unchanged: what _extract_from_url returns for a url is the
\* heading followed by the page's markdown so emitted, or by 'No content
\* extracted' for a page with no markdown.
C13_ContentCappedWithMarker ==
    /\ SearchCapsApplied
    /\ (tl.pc = "done" /\ tl.name = "_extract_from_url") =>
           \/ EndsWith(tl.ret.value, <<[s |-> "No content extracted", n |-> 20]>>)
           \/ \E r \in RawResults :
                  /\ "markdown" \in DOMAIN r
                  /\ EndsWith(tl.ret.value, Emitted(r.markdown, 3000))

(***************************************************************************)
(* Claims about combine_results_for_llm.                                   *)
(***************************************************************************)
\* a line of 80 '=' and the end of a line, as runs of a text
SeparatorLine == [s |-> "=", n |-> 80]
NewLine == [s |-> "\n", n |-> 1]

\* where text has a line that is 80 '=' and nothing else
SeparatorPlaces(text) ==
    {k \in 1..Len(text) :
        /\ text[k] = SeparatorLine
        /\ k = 1 \/ text[k - 1] = NewLine
        /\ k < Len(text) /\ text[k + 1] = NewLine}

\* combine_results_for_llm was called and has returned
CombineReturned == sx.op = "combine_results_for_llm" /\ sx.pc = "done"

\* the content of a result that the combined text shows
Shown(result, format) ==
    IF format \in DOMAIN result THEN result[format]
    ELSE IF "markdown" \in DOMAIN result THEN result.markdown
    ELSE IF "text" \in DOMAIN result THEN result.text
    ELSE IF "html" \in DOMAIN result THEN <<[s |-> result.html, n |-> Len(result.html)]>>
    ELSE <<>>

\* the results given whose own content is a line of 80 '='
OwnSeparators ==
    {i \in 1..Len(sx.items) : Shown(sx.items[i], sx.formats[1]) = <<SeparatorLine>>}

\* C14 as stated: combine_results_for_llm returns the empty string for no
\* results and a text with exactly N separator lines for N results.
C14_ExactlyNSeparatorLines ==
    CombineReturned =>
        /\ sx.items = <<>> => sx.ret.value = <<>>
        /\ Cardinality(SeparatorPlaces(sx.ret.value)) = Len(sx.items)

\* C14 as amended: combine_results_for_llm returns the empty string for no
\* results; for N results it writes N separator lines, one before each result
\* in input order, and the text has no other separator line than these and the
\* lines of 80 '=' of the results' own content.
C14_NSeparatorLinesWritten ==
    CombineReturned =>
        LET text == sx.ret.value
            N == Len(sx.items)
        IN  /\ sx.items = <<>> => text = <<>>
            /\ Cardinality(SeparatorPlaces(text)) = N + Cardinality(OwnSeparators)
            /\ \E p \in [1..N -> SeparatorPlaces(text)] :
                   /\ \A i, j \in 1..N : i < j => p[i] < p[j]
                   /\ \A i \in 1..N :
                          Contains(SubSeq(text, p[i] + 1,
                                          IF i < N THEN p[i + 1] - 1 ELSE Len(text)),
                                   Shown(sx.items[i], sx.formats[1]))

\* two results were combined with their metadata, one of them a page whose
\* text is a line of 80 '='
C14_Witness ==
    /\ CombineReturned
    /\ Len(sx.items) = 2
    /\ sx.include_metadata
    /\ OwnSeparators = {2}
    /\ Cardinality(SeparatorPlaces(sx.ret.value)) = 3

(***************************************************************************)
(* Claims about _search_web.                                               *)
(***************************************************************************)
\* the text of a string
Run(str) == IF str = "" THEN <<>> ELSE <<[s |-> str, n |-> Len(str)]>>

\* the '## <title>' / 'Source: <url>' block of a result
Block(result) ==
    Run("## ") \o Run(result.search_metadata.title) \o Run("\n")
        \o Run("Source: ") \o Run(result.search_metadata.url) \o Run("\n\n")

\* text has, from the place given on, the blocks of results i, i + 1, ... one
\* after the other, in this order
RECURSIVE BlocksInOrder(_, _, _, _)
BlocksInOrder(text, results, i, from) ==
    IF i > Len(results) THEN TRUE
    ELSE \E k \in from..(Len(text) - Len(Block(results[i])) + 1) :
             /\ SubSeq(text, k, k + Len(Block(results[i])) - 1) = Block(results[i])
             /\ BlocksInOrder(text, results, i + 1, k + Len(Block(results[i])))

\* C15: when the search_and_extract behind _search_web returns no result,
\* _search_web returns exactly 'No search results found.'; when it returns
\* results, the text returned has one '## <title>' / 'Source: <url>' block per
\* result, in result order.
C15_NoResultsLiteralElseBlocks ==
    ToolFormatted("_search_web") =>
        /\ sx.ret.value = <<>> => tl.ret.value = Run("No search results found.")
        /\ sx.ret.value # <<>> =>
               /\ tl.ret.value # Run("No search results found.")
               /\ BlocksInOrder(tl.ret.value, sx.ret.value, 1, 1)

\* the search gave two urls, both were extracted, and _search_web returned
\* their two blocks
C15_Witness ==
    /\ ToolFormatted("_search_web")
    /\ Len(sx.ret.value) = 2
    /\ sx.ret.value[1].search_metadata.url = "u2"
    /\ sx.ret.value[2].search_metadata.url = "u1"
    /\ BlocksInOrder(tl.ret.value, sx.ret.value, 1, 1)

\* the search gave nothing and _search_web said so
C15_WitnessEmpty ==
    /\ ToolFormatted("_search_web")
    /\ sx.pc = "done" /\ sx.scraped = <<>>
    /\ tl.ret.value = Run("No search results found.")

(***************************************************************************)
(* Claims about save_research_results.                                     *)
(***************************************************************************)
\* the topic segment of a filename: what stands between 'research_' and the
\* '_' before the timestamp
Segment(filename) == SubSeq(filename, 2, Len(filename) - 3)

\* filename is 'research_<segment>_<timestamp>.md' with a segment of at most 50
\* characters, all of them in chars, and a timestamp of 15 characters
WellNamed(filename, chars) ==
    /\ Len(filename) >= 4
    /\ filename[1] = [s |-> "research_", n |-> 9]
    /\ filename[Len(filename) - 2] = [s |-> "_", n |-> 1]
    /\ filename[Len(filename) - 1].n = 15
    /\ Len(filename[Len(filename) - 1].s) = 15
    /\ filename[Len(filename)] = [s |-> ".md", n |-> 3]
    /\ \A k \in 1..Len(Segment(filename)) : Segment(filename)[k].s \in chars
    /\ TextLen(Segment(filename)) <= 50

\* C16 as stated: every call of save_research_results returns a filename
\* 'research_<segment>_<timestamp>.md' whose segment has only characters of
\* [A-Za-z0-9 _-] and at most 50 of them, with a 15-character timestamp, and
\* writes a file that contains the body verbatim.
C16_AsciiSegment ==
    \A k \in 1..Len(fs.writes) :
        /\ WellNamed(fs.writes[k].filename, {"a", "7", " ", "_", "-"})
        /\ Contains(fs.writes[k].content, fs.writes[k].results)

\* C16 as amended: the same, with a segment whose characters are letters or
\* digits of any script (str.isalnum), spaces, hyphens or underscores.
C16_AlnumSegment ==
    \A k \in 1..Len(fs.writes) :
        /\ WellNamed(fs.writes[k].filename, {"a", "7", "é", " ", "_", "-"})
        /\ Contains(fs.writes[k].content, fs.writes[k].results)
        /\ k = Len(fs.writes) =>
               [name |-> fs.writes[k].filename, content |-> fs.writes[k].content]
                   \in fs.files

\* a topic of 51 characters, the last one to be replaced, was saved under a
\* segment of 50, and a topic with a non-ASCII letter under a segment with it
C16_Witness ==
    /\ Len(fs.writes) = 2
    /\ TextLen(fs.writes[1].topic) = 51
    /\ fs.writes[1].topic[2].s = "/"
    /\ TextLen(Segment(fs.writes[1].filename)) = 50
    /\ Len(fs.writes[2].topic) = 3
    /\ fs.writes[2].topic[2].s = "/"
    /\ Segment(fs.writes[2].filename)
           = <<[s |-> "a", n |-> 1], [s |-> "_", n |-> 1], [s |-> "é", n |-> 1]>>

\* C17: no call of save_research_results writes to a filename that an earlier
\* call wrote, whatever the topics and the clock readings.
C17_NoFilenameWrittenTwice ==
    \A j, k \in 1..Len(fs.writes) :
        j < k => fs.writes[j].filename # fs.writes[k].filename

(***************************************************************************)
(* Claims about the construction of the agent.                             *)
(***************************************************************************)
\* the constructor was given no key: neither an argument nor a variable
NoKey(arg, variable) == arg \in {"None", ""} /\ variable \in {"None", ""}

\* C18: construction with no language-model key fails before any extractor or
\* agent is created; construction with that key and no web-extraction key
\* always completes, in cloud mode and in local mode.
C18_OnlyLanguageModelKeyRequired ==
    ag.pc \in {"ready", "failed"} =>
        /\ NoKey(ag.args.openai_api_key, ag.environ.OPENAI_API_KEY) =>
               /\ ag.pc = "failed"
               /\ ag.extractor.kind = "none"
               /\ ag.agents = {}
        /\ (ag.openai_api_key \notin {"None", ""}
                /\ NoKey(ag.args.firecrawl_api_key, ag.environ.FIRECRAWL_API_KEY)) =>
               ag.pc = "ready"

\* construction with no language-model key fails with nothing created
C18_MissingKeyIsFatal ==
    (ag.pc \in {"ready", "failed"}
        /\ NoKey(ag.args.openai_api_key, ag.environ.OPENAI_API_KEY)) =>
            /\ ag.pc = "failed"
            /\ ag.raised = "ValueError"
            /\ ag.extractor.kind = "none"
            /\ ag.agents = {}

(***************************************************************************)
(* Claims about the statelessness of research() and the delegates' tools.  *)
(***************************************************************************)
\* what call c holds after a step is built from its own question and outputs
OwnInputs(r) ==
    /\ r.input["planner"] # None =>
           r.input["planner"] =
               <<"I need to research this topic thoroughly: ">> \o r.question
                   \o <<"\n\nPlease analyze this question and create a research plan with specific search queries to investigate.">>
    /\ r.input["researcher"] # None =>
           r.input["researcher"] = ResearcherInput(r.question, r.planning_output)
    /\ r.input["synthesis"] # None =>
           r.input["synthesis"] =
               <<"Original question: ">> \o r.question
                   \o <<"\n\nResearch findings:\n\n">> \o r.research_output
                   \o <<"\n\nPlease synthesize this information into a comprehensive, well-structured answer to the original question.">>
    /\ r.ret # None =>
           r.ret = IF r.raised = "none" THEN r.final_output
                   ELSE <<"Error performing research: ">> \o r.exc

\* C19: research() keeps no state between or across invocations: in any
\* interleaving of two calls on one agent no step changes a field of the agent
\* (agents, extractor, key), a step of one call leaves the other call's locals
\* as they were, and each call's stage inputs and return value are built from
\* its own question and its own stage outputs only.
C19_NoStateAcrossCalls ==
    [][/\ ag' = ag
       /\ \A c \in Calls :
              run'[c] # run[c] =>
                  /\ \A d \in Calls \ {c} : run'[d] = run[d]
                  /\ OwnInputs(run'[c])]_vars

\* two calls are in flight with different questions and different plans, one
\* at its synthesis stage and the other at its researcher stage
C19_Witness ==
    \E c, d \in Calls :
        /\ run[c].pc = "synthesis" /\ run[d].pc = "researcher"
        /\ run[c].question # run[d].question
        /\ run[c].planning_output # run[d].planning_output
        /\ ag.pc = "ready"

\* C20: the extraction tools are called only while the researcher stage is
\* running: no call of search_web, deep_research_topic, extract_from_url or
\* search_and_extract is made by the planner or by the synthesis agent, and
\* the synthesis agent calls no tool at all.
C20_ExtractionOnlyWhileResearching ==
    \A c \in Calls :
        \A i \in 1..Len(run[c].called) :
            /\ run[c].called[i].tool
                   \in {"search_web", "deep_research_topic", "extract_from_url",
                        "search_and_extract"}
                   => run[c].called[i].stage = "researcher"
            /\ run[c].called[i].stage # "synthesis"

\* the planner called its query tool, the researcher an extraction tool, and
\* the run has reached its synthesis stage
C20_Witness ==
    \E c \in Calls :
        /\ run[c].pc = "synthesis"
        /\ run[c].called = <<[stage |-> "planner", tool |-> "generate_search_queries"],
                             [stage |-> "researcher", tool |-> "search_web"]>>

(***************************************************************************)
(* Claims about the headings of combine_results_for_llm.                   *)
(***************************************************************************)
\* where text has a '# ' that opens the line after a separator line
HeadingPlaces(text) ==
    {k \in 4..Len(text) :
        /\ text[k] = [s |-> "# ", n |-> 2]
        /\ text[k - 1] = [s |-> "\n", n |-> 1]
        /\ text[k - 2] = [s |-> "\n", n |-> 1]
        /\ text[k - 3] = [s |-> "=", n |-> 80]}

\* what the heading line that starts at place k of text shows after '# '
HeadingShown(text, k) ==
    IF k < Len(text) /\ text[k + 1] # [s |-> "\n", n |-> 1] THEN text[k + 1].s ELSE ""

\* a result has a title: its metadata holds a title that is not empty
HasTitle(result) ==
    /\ "metadata" \in DOMAIN result
    /\ "title" \in DOMAIN result.metadata
    /\ result.metadata.title # ""

\* C21: in combine_results_for_llm with metadata included, the heading of the
\* i-th result is its title metadata when it has a title and 'Source i'
\* otherwise; a result normalized by _process_scrape_result from a response
\* whose metadata has no title gets the heading 'Source i'.
C21_HeadingTitleOrSourceN ==
    (sx.op = "combine_results_for_llm" /\ sx.pc = "done" /\ sx.include_metadata) =>
        LET text == sx.ret.value
            N == Len(sx.items)
        IN  \E p \in [1..N -> HeadingPlaces(text)] :
                /\ \A i, j \in 1..N : i < j => p[i] < p[j]
                /\ \A i \in 1..N :
                       HeadingShown(text, p[i]) =
                           IF HasTitle(sx.items[i]) THEN sx.items[i].metadata.title
                           ELSE "Source " \o ToString(i)

\* what the code does: the heading is the value of the title key when the
\* metadata has this key, empty or not, and 'Source i' when it has not
C21_HeadingTitleKeyOrSourceN ==
    (sx.op = "combine_results_for_llm" /\ sx.pc = "done" /\ sx.include_metadata) =>
        LET text == sx.ret.value
            N == Len(sx.items)
        IN  \E p \in [1..N -> HeadingPlaces(text)] :
                /\ \A i, j \in 1..N : i < j => p[i] < p[j]
                /\ \A i \in 1..N :
                       HeadingShown(text, p[i]) =
                           IF /\ "metadata" \in DOMAIN sx.items[i]
                              /\ "title" \in DOMAIN sx.items[i].metadata
                           THEN sx.items[i].metadata.title
                           ELSE "Source " \o ToString(i)

(***************************************************************************)
(* Claims about the sleeps of deep_research.                               *)
(***************************************************************************)
\* C22: in deep_research one sleep of 2 seconds separates every two
\* consecutive status polls: no sleep comes before the first poll, no two
\* polls come without a sleep between them, no two sleeps come without a poll
\* between them, and no sleep follows a poll that reported 'done' or 'error'.
C22_OneSleepBetweenPolls ==
    LET events == dr.events
    IN  /\ (events # <<>> /\ ~dr.dropped) => events[1].ev = "poll"
        /\ \A i \in 1..Len(events) :
               /\ i < Len(events) => events[i].ev # events[i + 1].ev
               /\ events[i].ev = "sleep" => events[i].seconds = 2
               /\ (events[i].ev = "poll" /\ events[i].resp.status \in {"done", "error"})
                      => i = Len(events)
        /\ dr.pc = "sleep" =>
               /\ events # <<>>
               /\ events[Len(events)].ev = "poll"
               /\ events[Len(events)].resp.status \notin {"done", "error"}

\* a call polled twice, 'processing' then 'scraping', slept after each poll
\* and is about to poll a third time
C22_Witness ==
    /\ dr.pc = "poll"
    /\ ~dr.dropped
    /\ Len(dr.events) = 4
    /\ dr.events[1].ev = "poll" /\ dr.events[1].resp.status = "processing"
    /\ dr.events[2].ev = "sleep"
    /\ dr.events[3].ev = "poll" /\ dr.events[3].resp.status = "scraping"
    /\ dr.events[4].ev = "sleep"

(***************************************************************************)
(* Claims about what _search_web makes of a failed search.                 *)
(***************************************************************************)
\* app.search answered with success and with data
SearchSucceeded ==
    /\ "success" \in DOMAIN sx.search_results
    /\ sx.search_results.success
    /\ "data" \in DOMAIN sx.search_results

\* the urls of the entries app.search answered with
ResultUrls ==
    {i \in 1..Len(sx.search_results.data) :
        /\ "url" \in DOMAIN sx.search_results.data[i]
        /\ sx.search_results.data[i].url \notin {"None", ""}}

\* C23: _search_web returns 'No search results found.' only when the search
\* succeeded and returned no result url; a search that reports success false
\* and a search whose urls all fail to scrape are not reported with this
\* literal.
C23_NoResultsOnlyForEmptySearch ==
    (/\ tl.pc = "done" /\ tl.name = "_search_web"
     /\ tl.ret = [kind |-> "return",
                  value |-> <<[s |-> "No search results found.", n |-> 24]>>])
        => (SearchSucceeded /\ ResultUrls = {})

\* what the code does: 'No search results found.' is returned exactly when
\* search_and_extract returned no result, whatever the reason
C23_NoResultsWhenNothingExtracted ==
    (tl.pc = "done" /\ tl.name = "_search_web" /\ tl.exc = "None") =>
        ((tl.ret.value = <<[s |-> "No search results found.", n |-> 24]>>)
             <=> (sx.ret.value = <<>>))

=============================================================================
